---- MODULE Spec2Model ----
(***************************************************************************)
(* A model of dragonsweepyr's dungeon generator: the Floor (the grid of    *)
(* BoardTile objects and the registry of populated coordinates), the       *)
(* happiness score, add_tile and post_process_layer.                       *)
(*                                                                         *)
(* Tile objects live in a heap `obj` (object -> fields) and the grid       *)
(* `tiles` holds references, because the code compares tiles by identity   *)
(* and _swap_tiles indexes the grid by the coordinates stored in the       *)
(* objects.  A radius r is written as 2r (1.5 is 3) and compared on        *)
(* squared distances, which is exact for integer coordinates.              *)
(***************************************************************************)
EXTENDS Integers, Sequences, FiniteSets, TLC

\* ------------------------------------------------------------------ bounds
\* Largest Floor(width, height) the model constructs.
Width == 4
Height == 2
MaxCells == 4
\* Largest `count` passed to add_tile.
MaxCount == 2
\* Most tiles the caller adds between two post_process_layer calls.
MaxLayer == 3
\* Most tiles the caller requests altogether.
MaxTiles == 4

\* The floors on which the methods are called one by one have at most this many cells.
ApiCells == 3

\* A caller outside the class calls set_populated at most this often.
MaxDirect == 1

\* --------------------------------------------------------------- constants
\* monsters/tiles.py: class TileID
TileID ==
    [NaN |-> -1, Empty |-> 0, Orb |-> 1, SpellMakeOrb |-> 2, Mine |-> 3,
     MineKing |-> 4, Dragon |-> 5, Wall |-> 6, Mimic |-> 7, Medikit |-> 8,
     RatKing |-> 9, Rat |-> 10, Slime |-> 11, Gargoyle |-> 12,
     Minotaur |-> 13, Chest |-> 14, Skeleton |-> 15, Treasure |-> 16,
     Snake |-> 17, Giant |-> 18, Decoration |-> 19, Wizard |-> 20,
     Gazer |-> 21, SpellDisarm |-> 22, BigSlime |-> 23,
     SpellRevealRats |-> 24, SpellRevealSlimes |-> 25, Gnome |-> 26,
     Bat |-> 27, Guard |-> 28, Crown |-> 29, Fidel |-> 30, DragonEgg |-> 31,
     Death |-> 32, DarkKnight |-> 33, Eye |-> 34]

\* config.py: GameConfig.grid_columns, grid_rows (the global config instance)
config == [grid_columns |-> 13, grid_rows |-> 10]

\* Python's None, as a tile reference (no object has this reference).
None == 0

\* range(4) in post_process_layer
Passes == 4

\* ------------------------------------------------------------------- state
VARIABLES
    width,          \* Floor.width
    height,         \* Floor.height
    tiles,          \* Floor.tiles: cell <<x, y>> -> reference of the tile stored at tiles[y][x]
    obj,            \* the BoardTile objects: reference -> [id, tx, ty, fixed, name]
    populated,      \* Floor.populated: set of cells <<x, y>>
    satisfaction,   \* Floor.satisfaction
    call,           \* the last call made on the floor: its arguments, what it returned and what it went through
    direct,         \* the number of set_populated calls made from outside the class
    pc,             \* generate_dungeon: the index in Layers of its next call
    contains,       \* BoardTile.contains: reference of a tile -> what its contains attribute holds
    player,         \* the Player object: [max_hp, current_hp, xp, level, score]
    chest_locations,    \* Floor.chest_locations: sequence of <<x, y>>
    wall_locations,     \* Floor.wall_locations: sequence of <<x, y>>
    display,        \* what finalize_floor has written on tiles: reference -> [strip_frame, wallHP, wallMaxHP, minotaurChestLocation]
    run,            \* Game.run: its locals generation_error, dungeon_ready and the elapsed time, and where the thread and the caller are
    gen             \* generate_dungeon: the call it is at, and the floor by its counts: tiles requested, placed, stored, not yet fixed

vars == <<width, height, tiles, obj, populated, satisfaction, call, direct, pc, contains, player,
          chest_locations, wall_locations, display, run, gen>>

\* The floor as one value, for the operators below.
Floor ==
    [width |-> width, height |-> height, tiles |-> tiles, obj |-> obj,
     populated |-> populated, satisfaction |-> satisfaction]

CellsOf(w, h) == (0 .. w - 1) \X (0 .. h - 1)

Cells(F) == CellsOf(F.width, F.height)

\* The cells in the order of `for row in self.tiles: for tile in row`.
RowMajor(F) ==
    [i \in 1 .. F.width * F.height |->
        <<(i - 1) % F.width, (i - 1) \div F.width>>]

\* BoardTile.__init__: a fresh tile is Empty, at (0, 0), not fixed, named "none".
BoardTile == [id |-> TileID.Empty, tx |-> 0, ty |-> 0, fixed |-> FALSE, name |-> "none"]

\* The reference of the BoardTile() that Floor.__init__ stores at tiles[y][x].
InitialRef(w, c) == 0 - (c[2] * w + c[1] + 1)

\* Python's max(a, b) and min(a, b).
Max(a, b) == IF a >= b THEN a ELSE b

Min(a, b) == IF a <= b THEN a ELSE b

\* ---------------------------------------------------------------- utils.py
dist_squared(x1, y1, x2, y2) == (x1 - x2) * (x1 - x2) + (y1 - y2) * (y1 - y2)

\* distance(x1, y1, x2, y2) <= r, with the radius given as two_r = 2 * r.
distance_le(x1, y1, x2, y2, two_r) == 4 * dist_squared(x1, y1, x2, y2) <= two_r * two_r

\* distance(x1, y1, x2, y2) < r, with the radius given as two_r = 2 * r.
distance_lt(x1, y1, x2, y2, two_r) == 4 * dist_squared(x1, y1, x2, y2) < two_r * two_r

is_center(tx, ty) ==
    LET center_x == config.grid_columns \div 2
        center_y == config.grid_rows \div 2
    IN  center_x = tx /\ ty = center_y

is_close_to_edge(tx, ty) ==
    tx <= 1 \/ ty <= 1 \/ tx >= config.grid_columns - 2 \/ ty >= config.grid_rows - 2

\* A variant of is_corner that knows the two corners of the first row only:
\* GridGeometry tells it from the code's.
is_corner_first_row(tx, ty) ==
    (tx = 0 /\ ty = 0) \/ (tx = config.grid_columns - 1 /\ ty = 0)

is_corner(tx, ty) ==
    LET top_left == tx = 0 /\ ty = 0
        top_right == tx = config.grid_columns - 1 /\ ty = 0
        bottom_left == tx = 0 /\ ty = config.grid_rows - 1
        bottom_right == tx = config.grid_columns - 1 /\ ty = config.grid_rows - 1
    IN  top_left \/ top_right \/ bottom_left \/ bottom_right

is_edge(tx, ty) ==
    tx = 0 \/ ty = 0 \/ tx = config.grid_columns - 1 \/ ty = config.grid_rows - 1

\* ------------------------------------------------------- tiles.py, creatures.py
\* BoardTile.is_near(other, dist): t and o are the two tiles' fields.
is_near(t, o, two_dist) == distance_le(t.tx, t.ty, o.tx, o.ty, two_dist)

\* The satisfaction() method of the tile's class (creatures.py, items.py):
\* the score of the tile's absolute position.  Every other class returns
\* BoardTile.satisfaction(), which is 0 when no _satisfaction_func is set.
tile_satisfaction(t) ==
    CASE t.id = TileID.Dragon -> IF is_center(t.tx, t.ty) THEN 10000 ELSE 0
      [] t.id = TileID.Fidel -> IF is_corner(t.tx, t.ty) THEN 9000 ELSE 0
      [] t.id = TileID.MineKing -> IF is_corner(t.tx, t.ty) THEN 10000 ELSE 0
      [] t.id = TileID.Wizard ->
            IF is_edge(t.tx, t.ty) /\ ~is_corner(t.tx, t.ty) THEN 10000 ELSE 0
      [] t.id = TileID.Guard ->
            IF \/ t.name = "guard1" /\ t.tx < 6 /\ t.ty < 4
               \/ t.name = "guard2" /\ t.tx > 6 /\ t.ty < 4
               \/ t.name = "guard3" /\ t.tx > 6 /\ t.ty > 4
               \/ t.name = "guard4" /\ t.tx < 6 /\ t.ty > 4
            THEN 2500 ELSE 0
      [] OTHER -> 0

\* A variant of all_tiles that lists the tile of every cell of the grid, the
\* empty ones too: OnlyPermutesLayer tells it from the code's.
all_tiles_of_grid(F, order) ==
    [i \in 1 .. Len(RowMajor(F)) |-> F.tiles[RowMajor(F)[i]]]

\* --------------------------------------------------------------- dungeon.py
\* Floor.all_tiles(): the tiles stored at the populated coordinates, listed
\* in the iteration order `order` of the set Floor.populated.
all_tiles(F, order) == [i \in 1 .. Len(order) |-> F.tiles[order[i]]]

\* Floor.get_tile_at(x, y): None when out of bounds.
get_tile_at(F, x, y) ==
    IF 0 <= x /\ x < F.width /\ 0 <= y /\ y < F.height THEN F.tiles[<<x, y>>] ELSE None

\* Floor.get_tiles_in_radius(center_x, center_y, radius), with the radius
\* given as two_r = 2 * radius: the tiles of the grid, in row-major order,
\* whose own tx, ty are not the center and are within the radius of it.
get_tiles_in_radius(F, center_x, center_y, two_r) ==
    LET rm == RowMajor(F)
        all == [i \in 1 .. Len(rm) |-> F.tiles[rm[i]]]
        Found(r) ==
            /\ ~(F.obj[r].tx = center_x /\ F.obj[r].ty = center_y)
            /\ distance_le(F.obj[r].tx, F.obj[r].ty, center_x, center_y, two_r)
    IN  SelectSeq(all, Found)

\* Floor.get_tile_list(tile_id): every tile with that id, in row-major order.
get_tile_list(F, tile_id) ==
    LET rm == RowMajor(F)
        all == [i \in 1 .. Len(rm) |-> F.tiles[rm[i]]]
        Has(r) == F.obj[r].id = tile_id
    IN  SelectSeq(all, Has)

\* Floor.get_tile_id(tile_id): the first tile with that id, or None.
\* happiness() calls it as current_board.get_tile(tile_id).
get_tile_id(F, tile_id) ==
    LET found == get_tile_list(F, tile_id)
    IN  IF found = <<>> THEN None ELSE found[1]

\* A variant of count_identical_neighbors that takes the radius as a
\* distance in the plane, a disc in place of the box: NeighborsInBox tells
\* it from the code's.
count_identical_neighbors_disc(F, t, radius) ==
    LET o == F.obj[t]
    IN  Cardinality({c \in Cells(F) :
            /\ c # <<o.tx, o.ty>>
            /\ distance_le(c[1], c[2], o.tx, o.ty, 2 * radius)
            /\ F.obj[F.tiles[c]].id = o.id})

\* count_identical_neighbors(board, target_tile, radius): the tiles with the
\* target's id stored in the cells of the box of `radius` cells around the
\* target's coordinates, clipped at the border, the centre cell left out.
count_identical_neighbors(F, t, radius) ==
    LET o == F.obj[t]
        ys == Max(0, o.ty - radius) .. Min(F.height, o.ty + radius + 1) - 1
        xs == Max(0, o.tx - radius) .. Min(F.width, o.tx + radius + 1) - 1
    IN  Cardinality({c \in xs \X ys :
            /\ c # <<o.tx, o.ty>>
            /\ get_tile_at(F, c[1], c[2]) # None
            /\ F.obj[get_tile_at(F, c[1], c[2])].id = o.id})

\* A variant of _swap_tiles that exchanges the two grid slots and leaves the
\* tiles' tx and ty as they were: TilesKnowTheirCell tells it from the code's.
swap_tiles_slots_only(F, a, b) ==
    LET pa == <<F.obj[a].tx, F.obj[a].ty>>
        pb == <<F.obj[b].tx, F.obj[b].ty>>
    IN  [F EXCEPT !.tiles = [F.tiles EXCEPT ![pa] = F.tiles[pb], ![pb] = F.tiles[pa]]]

\* A variant of _swap_tiles that assigns one coordinate after the other,
\* b's from a's new ones: SwapTwiceRestores tells it from the code's.
swap_tiles_in_sequence(F, a, b) ==
    LET oa == F.obj[a]
        ob == F.obj[b]
        pa == <<oa.tx, oa.ty>>
        pb == <<ob.tx, ob.ty>>
        tiles1 == [F.tiles EXCEPT ![pa] = F.tiles[pb]]
        tiles2 == [tiles1 EXCEPT ![pb] = F.tiles[pa]]
        obj1 == [F.obj EXCEPT ![a].tx = ob.tx, ![a].ty = ob.ty]
        obj2 == [obj1 EXCEPT ![b].tx = obj1[a].tx, ![b].ty = obj1[a].ty]
    IN  [F EXCEPT !.tiles = tiles2, !.obj = obj2]

\* Floor._swap_tiles(tile_a, tile_b): the two grid slots named by the tiles'
\* own coordinates exchange their contents (the right-hand side is read
\* first, then the two slots are written in turn), then the tiles exchange
\* tx and ty.
swap_tiles(F, a, b) ==
    LET oa == F.obj[a]
        ob == F.obj[b]
        pa == <<oa.tx, oa.ty>>
        pb == <<ob.tx, ob.ty>>
        tiles1 == [F.tiles EXCEPT ![pa] = F.tiles[pb]]
        tiles2 == [tiles1 EXCEPT ![pb] = F.tiles[pa]]
        obj1 == [F.obj EXCEPT ![a].tx = ob.tx, ![a].ty = ob.ty]
        obj2 == [obj1 EXCEPT ![b].tx = oa.tx, ![b].ty = oa.ty]
    IN  [F EXCEPT !.tiles = tiles2, !.obj = obj2]

\* Floor.set_populated(x, y, is_populated): silently ignores a coordinate
\* outside the grid.
set_populated(F, x, y, is_populated) ==
    IF 0 <= x /\ x < F.width /\ 0 <= y /\ y < F.height
    THEN IF is_populated
         THEN [F EXCEPT !.populated = @ \cup {<<x, y>>}]
         ELSE [F EXCEPT !.populated = @ \ {<<x, y>>}]
    ELSE F

\* Floor.is_populated(x, y)
is_populated(F, x, y) == <<x, y>> \in F.populated

\* A variant of _fix_tiles that fixes nothing: AllFixedAtReturn tells it from
\* the code's.
fix_tiles_none(F) == F

\* Floor._fix_tiles(): every tile of all_tiles() becomes fixed.
fix_tiles(F) ==
    LET listed == {F.tiles[c] : c \in F.populated}
    IN  [F EXCEPT !.obj = [r \in DOMAIN F.obj |->
            IF r \in listed THEN [F.obj[r] EXCEPT !.fixed = TRUE] ELSE F.obj[r]]]

\* ------------------------------------------------------------- happiness.py
\* `tile.name.endswith("_guard")`, over the names the model gives to tiles.
ends_with_guard(name) == name \in {"rat_guard"}

\* A variant of the Minotaur case that pays when at least one chest is near:
\* the exact count of MinotaurExactlyOneChest tells it from the code's.
minotaur_happiness_some_chest(F, t) ==
    LET o == F.obj[t]
        NotMe(m) == m # t
        other_minotaurs == SelectSeq(get_tile_list(F, TileID.Minotaur), NotMe)
        chest_tiles == get_tile_list(F, TileID.Chest)
        Near2(r) == is_near(o, F.obj[r], 4)
    IN  IF other_minotaurs # <<>> /\ \E i \in DOMAIN other_minotaurs : Near2(other_minotaurs[i]) THEN 0
        ELSE IF \E i \in DOMAIN chest_tiles : Near2(chest_tiles[i]) THEN 10000 ELSE 0

\* `case TileID.Minotaur`: nothing when another Minotaur is within distance 2
\* or the floor has no chest; else 10000 when exactly one chest is within
\* distance 2.
minotaur_happiness(F, t) ==
    LET o == F.obj[t]
        NotMe(m) == m # t
        other_minotaurs == SelectSeq(get_tile_list(F, TileID.Minotaur), NotMe)
        chest_tiles == get_tile_list(F, TileID.Chest)
        Near2(r) == is_near(o, F.obj[r], 4)
        nearby_chest_count ==
            Cardinality({i \in DOMAIN chest_tiles : Near2(chest_tiles[i])})
    IN  IF other_minotaurs # <<>> /\ \E i \in DOMAIN other_minotaurs : Near2(other_minotaurs[i]) THEN 0
        ELSE IF chest_tiles = <<>> THEN 0
        ELSE IF nearby_chest_count = 1 THEN 10000 ELSE 0

\* A variant of the Wall case that adds nothing for a wall with another wall
\* at distance <= 1: WallsAddFlat2000 tells it from the code's.
wall_happiness_by_neighbors(F, t) ==
    LET o == F.obj[t]
        close == {n \in {F.tiles[c] : c \in F.populated} :
                    /\ n # t
                    /\ F.obj[n].id = TileID.Wall
                    /\ distance_le(o.tx, o.ty, F.obj[n].tx, F.obj[n].ty, 2)}
    IN  IF close = {} THEN 2000 ELSE 0

\* `case TileID.Wall` of happiness() for the wall t: the loop over the other
\* walls writes the locals close_count, far_count and on_edge only, which
\* nothing reads after it, and the case ends with happiness_score += 2000.
wall_happiness(F, t) == 2000

\* The `match tile.id` of happiness() for tile t: what the tile's case adds to
\* happiness_score (0 where the case ends in `continue` or adds nothing).
relational_happiness(F, t) ==
    LET o == F.obj[t]
    IN  CASE o.id = TileID.BigSlime ->
                LET wizard_tile == get_tile_id(F, TileID.Wizard)
                IN  IF wizard_tile = None THEN 0
                    ELSE IF is_near(o, F.obj[wizard_tile], 3) THEN 1000 ELSE 0
          [] o.id = TileID.DragonEgg ->
                LET dragon_tile == get_tile_id(F, TileID.Dragon)
                IN  IF dragon_tile = None THEN 0
                    ELSE IF is_near(o, F.obj[dragon_tile], 3) THEN 9000 ELSE 0
          [] o.id = TileID.Gargoyle ->
                LET current_gargoyles == get_tile_list(F, TileID.Gargoyle)
                    Twin(p) == p # t /\ F.obj[p].name = o.name
                    twins == SelectSeq(current_gargoyles, Twin)
                IN  IF twins = <<>> THEN 0
                    ELSE IF is_near(o, F.obj[twins[1]], 3) THEN 1000 ELSE 0
          [] o.id = TileID.Giant ->
                LET all_giants == get_tile_list(F, TileID.Giant)
                    Other(g) == g # t
                    others == SelectSeq(all_giants, Other)
                IN  IF others = <<>> THEN 0
                    ELSE LET my_love == F.obj[others[1]]
                             Abs(v) == IF v < 0 THEN 0 - v ELSE v
                             side ==
                                IF \/ o.name = "romeo" /\ o.tx <= 5
                                   \/ o.name = "juliet" /\ o.tx >= 7
                                THEN 1000 ELSE 0
                             \* abs(tx - columns / 2), both sides doubled
                             mirrored ==
                                IF /\ o.ty = my_love.ty
                                   /\ Abs(2 * o.tx - config.grid_columns)
                                        = Abs(2 * my_love.tx - config.grid_columns)
                                THEN 10000 ELSE 0
                         IN  side + mirrored
          [] o.id = TileID.Gnome ->
                LET medkit_tiles == get_tile_list(F, TileID.Medikit)
                IN  IF medkit_tiles = <<>> THEN 0
                    ELSE IF \E i \in 1 .. Len(medkit_tiles) :
                                is_near(o, F.obj[medkit_tiles[i]], 3)
                         THEN 10000 ELSE 0
          [] o.id = TileID.Minotaur -> minotaur_happiness(F, t)
          [] o.id = TileID.Rat ->
                IF ~ends_with_guard(o.name) THEN 0
                ELSE LET rat_king_tile == get_tile_id(F, TileID.RatKing)
                     IN  IF rat_king_tile = None THEN 0
                         ELSE IF /\ is_near(o, F.obj[rat_king_tile], 2)
                                 /\ o.ty = F.obj[rat_king_tile].ty
                              THEN 1000 ELSE 0
          [] o.id = TileID.Chest -> 0 - 1000 * count_identical_neighbors(F, t, 3)
          [] o.id = TileID.Medikit -> 0 - 1000 * count_identical_neighbors(F, t, 4)
          [] o.id = TileID.Wall -> wall_happiness(F, t)
          [] OTHER -> 0

\* sum(): the sum of a list of integers.
RECURSIVE Sum(_, _)
Sum(seq, i) == IF i > Len(seq) THEN 0 ELSE seq[i] + Sum(seq, i + 1)

\* The member of a one-member set.  Only({e(x) : x \in {v}}) is e(v) with v
\* computed once, however often e uses x.
Only(S) == CHOOSE x \in S : TRUE

\* What the loop of happiness() adds for each tile of all_tiles(): the tile's
\* own satisfaction() plus what its case adds.  The tiles are taken in
\* row-major order (the sum does not depend on the order).
tile_scores(F) ==
    LET InSet(c) == c \in F.populated
    IN  Only({[i \in 1 .. Len(listed) |->
                  tile_satisfaction(F.obj[F.tiles[listed[i]]])
                      + relational_happiness(F, F.tiles[listed[i]])] :
              listed \in {SelectSeq(RowMajor(F), InSet)}})

\* Whether the case of tile t calls current_board.get_tile(...): the cases
\* BigSlime, DragonEgg and Rat (for a name ending in "_guard") do, before
\* anything else.
calls_get_tile(F, t) ==
    \/ F.obj[t].id \in {TileID.BigSlime, TileID.DragonEgg}
    \/ F.obj[t].id = TileID.Rat /\ ends_with_guard(F.obj[t].name)

\* Whether happiness(current_board) raises: the board post_process_layer
\* passes is a Floor, which has get_tile_at and get_tile_id but no attribute
\* get_tile, so that the first tile of all_tiles() whose case calls it ends
\* the call in AttributeError, whatever else is on the floor.
happiness_raises(F) == \E c \in F.populated : calls_get_tile(F, F.tiles[c])

\* happiness(current_board): the total the loop accumulates, for a floor on
\* which it does not raise.  (The cases that call get_tile are kept in
\* relational_happiness as they would go on with get_tile_id's result.)
happiness(F) == Only({Sum(scores, 1) : scores \in {tile_scores(G) : G \in {F}}})

\* ------------------------------------------------- dungeon.py: add_tile
\* The unpopulated coordinates, add_tile's empty_positions.
empty_positions(F) == {c \in Cells(F) : ~is_populated(F, c[1], c[2])}

\* The loop of Floor.add_tile(tile_class, count, **kwargs) from its i-th
\* iteration on.  cls is the id that tile_class() sets, name the `name`
\* keyword ("none", the constructor's value, when the caller gives none),
\* refs[i] the reference of the i-th tile it creates and picks[i] what
\* random.choice(empty_positions) returns in the i-th iteration.  The result
\* is the floor and the number of tiles placed; the loop breaks when no
\* empty position is left.
RECURSIVE add_tile_loop(_, _, _, _, _, _, _, _)
add_tile_loop(F, cls, count, name, refs, picks, i, placed) ==
    IF i > count THEN [F |-> F, placed |-> placed]
    ELSE IF empty_positions(F) = {} THEN [F |-> F, placed |-> placed]
    ELSE LET x == picks[i][1]
             y == picks[i][2]
             tile == [BoardTile EXCEPT !.id = cls, !.tx = x, !.ty = y, !.name = name]
             F1 == [F EXCEPT !.tiles[<<x, y>>] = refs[i],
                             !.obj = (refs[i] :> tile) @@ @]
             F2 == set_populated(F1, x, y, TRUE)
         IN  add_tile_loop(F2, cls, count, name, refs, picks, i + 1, placed + 1)

\* A variant of add_tile that stops after its first tile: AddTilePlacesMin
\* tells it from the code's.
add_tile_first_only(F, cls, count, name, refs, picks) ==
    add_tile_loop(F, cls, 1, name, refs, picks, 1, 0)

\* Floor.add_tile(tile_class, count, **kwargs).
add_tile(F, cls, count, name, refs, picks) ==
    add_tile_loop(F, cls, count, name, refs, picks, 1, 0)

\* A variant of the choice that takes any cell of the grid, populated or not:
\* AddTileOnlyOnEmpty tells it from the code's.
picks_anywhere(F, count, picks, i) == TRUE

\* Whether picks are choices random.choice can make: the i-th among the
\* positions empty at that moment (and <<0, 0>>, unused, once the loop has
\* broken).
RECURSIVE picks_possible(_, _, _, _)
picks_possible(F, count, picks, i) ==
    IF i > count THEN TRUE
    ELSE IF empty_positions(F) = {} THEN \A j \in i .. count : picks[j] = <<0, 0>>
    ELSE /\ picks[i] \in empty_positions(F)
         /\ picks_possible(set_populated(F, picks[i][1], picks[i][2], TRUE), count, picks, i + 1)

\* ----------------------------------------- dungeon.py: post_process_layer
\* A variant of the inner loop's test that passes over the anchor only:
\* FixedTilesStay tells it from the code's.
skip_candidate_self_only(F, tile_a, tile_b) == tile_a = tile_b

\* `if tile_b.fixed or tile_a is tile_b: continue`.
skip_candidate(F, tile_a, tile_b) == F.obj[tile_b].fixed \/ tile_a = tile_b

\* A variant of the iteration that keeps a candidate only when its score is
\* above the best so far, so that the first of several equal ones wins:
\* LastBestCandidateWins tells it from the code's.
trial_first_wins(acc, a, tile_b) ==
    IF skip_candidate(acc.F, a, tile_b) THEN acc
    ELSE Only({
           [F |-> swap_tiles(F1, a, tile_b),
            best_satisfaction |->
                IF new_satisfaction > acc.best_satisfaction
                THEN new_satisfaction ELSE acc.best_satisfaction,
            happiest_replacement |->
                IF new_satisfaction > acc.best_satisfaction
                THEN tile_b ELSE acc.happiest_replacement,
            trials |-> Append(acc.trials, <<tile_b, new_satisfaction>>)] :
           <<F1, new_satisfaction>> \in
               {<<G, happiness(G)>> : G \in {swap_tiles(acc.F, a, tile_b)}}})

\* One iteration of the inner loop `for tile_b in self.all_tiles()` for the
\* anchor a: a fixed candidate and the anchor itself are passed over; else
\* swap, score, swap back, and keep the candidate when its score is >= the
\* best so far.  acc carries the floor, best_satisfaction,
\* happiest_replacement and the trials made.
trial(acc, a, tile_b) ==
    IF skip_candidate(acc.F, a, tile_b) THEN acc
    ELSE Only({
           [F |-> swap_tiles(F1, a, tile_b),
            best_satisfaction |->
                IF new_satisfaction >= acc.best_satisfaction
                THEN new_satisfaction ELSE acc.best_satisfaction,
            happiest_replacement |->
                IF new_satisfaction >= acc.best_satisfaction
                THEN tile_b ELSE acc.happiest_replacement,
            trials |-> Append(acc.trials, <<tile_b, new_satisfaction>>)] :
           <<F1, new_satisfaction>> \in
               {<<G, happiness(G)>> : G \in {swap_tiles(acc.F, a, tile_b)}}})

\* The inner loop over the list bs, from its j-th entry on.
RECURSIVE inner_loop(_, _, _, _)
inner_loop(acc, a, bs, j) ==
    IF j > Len(bs) THEN acc
    ELSE Only({inner_loop(next, a, bs, j + 1) : next \in {trial(acc, a, bs[j])}})

\* What one anchor does to the floor F whose total happiness is h: the best
\* candidate found by the inner loop, if any, is swapped in and
\* Floor.satisfaction becomes its score.  The result carries the floor, its
\* total happiness and the log entry of the anchor.
commit(F, h, pass, tile_a, found) ==
    IF found.happiest_replacement = None
    THEN [F |-> found.F, h |-> h,
          entry |-> [pass |-> pass, anchor |-> tile_a, baseline |-> F.satisfaction,
                     before |-> h, after |-> h, replacement |-> None,
                     trials |-> found.trials]]
    ELSE Only({
           [F |-> F1, h |-> h1,
            entry |-> [pass |-> pass, anchor |-> tile_a, baseline |-> F.satisfaction,
                       before |-> h, after |-> h1,
                       replacement |-> found.happiest_replacement,
                       trials |-> found.trials]] :
           <<F1, h1>> \in
               {<<G, happiness(G)>> : G \in
                   {[swap_tiles(found.F, tile_a, found.happiest_replacement)
                        EXCEPT !.satisfaction = found.best_satisfaction]}}})

\* One iteration of `for tile_a in self.all_tiles()`: S is the floor, its
\* total happiness h and the log of the anchors processed so far.  A fixed
\* anchor is skipped.
process_anchor(S, pass, tile_a, bs) ==
    IF S.F.obj[tile_a].fixed
    THEN S
    ELSE Only({[F |-> done.F, h |-> done.h, log |-> Append(S.log, done.entry)] :
               done \in {commit(S.F, S.h, pass, tile_a, found) : found \in
                   {inner_loop([F |-> S.F, best_satisfaction |-> S.F.satisfaction,
                                happiest_replacement |-> None, trials |-> <<>>],
                               tile_a, bs, 1)}}})

\* `for tile_a in self.all_tiles()` over the list anchors, from entry i on.
\* The inner loop's list is what all_tiles() gives when the anchor is reached.
RECURSIVE anchor_loop(_, _, _, _, _)
anchor_loop(S, pass, anchors, order, i) ==
    IF i > Len(anchors) THEN S
    ELSE Only({anchor_loop(T, pass, anchors, order, i + 1) : T \in
               {process_anchor(S, pass, anchors[i], bs) : bs \in {all_tiles(S.F, order)}}})

\* A variant of the loop that makes one pass and stops: FourPassesThenFixed
\* tells it from the code's.
pass_loop_once(S, pass, order) ==
    Only({anchor_loop(S, pass, anchors, order, 1) : anchors \in {all_tiles(S.F, order)}})

\* `for _ in range(4)`, from pass number `pass` on.  random.shuffle shuffles
\* the list all_tiles() has just built and drops it: the anchors are the
\* tiles of a second all_tiles() call, in the set's order.
RECURSIVE pass_loop(_, _, _)
pass_loop(S, pass, order) ==
    IF pass > Passes THEN S
    ELSE Only({pass_loop(T, pass + 1, order) : T \in
               {anchor_loop(S, pass, anchors, order, 1) : anchors \in {all_tiles(S.F, order)}}})

\* Floor.post_process_layer(), with `order` the iteration order of the set
\* Floor.populated (the same on every iteration: the set is not changed).
\* The result is the floor at return, the total happiness at entry and at
\* return and the log of the anchors processed.
post_process_layer(F, order) ==
    Only({[F |-> fix_tiles(S.F), entry |-> S0.h, exit |-> S.h, log |-> S.log] :
          <<S0, S>> \in {<<T, pass_loop(T, 1, order)>> : T \in
              {[F |-> IF G.satisfaction = 0 THEN [G EXCEPT !.satisfaction = h] ELSE G,
                h |-> h, log |-> <<>>] : <<G, h>> \in {<<F, happiness(F)>>}}}})

\* ------------------------------------------------------------ the calls
\* The tile classes and `name` keywords the callers of add_tile pass, as
\* generate_dungeon does: a class sets the tile's id, name is "none" when the
\* call gives no name.
Menu == << [cls |-> TileID.Wizard,   name |-> "none"],
           [cls |-> TileID.MineKing, name |-> "none"],
           [cls |-> TileID.Rat,      name |-> "none"],
           [cls |-> TileID.Gnome,    name |-> "none"],
           [cls |-> TileID.Medikit,  name |-> "none"],
           [cls |-> TileID.Minotaur, name |-> "none"],
           [cls |-> TileID.Chest,    name |-> "none"],
           [cls |-> TileID.Wall,     name |-> "none"],
           [cls |-> TileID.Giant,    name |-> "romeo"],
           [cls |-> TileID.Giant,    name |-> "juliet"],
           [cls |-> TileID.Guard,    name |-> "guard1"],
           [cls |-> TileID.Gargoyle, name |-> "gargoyle1"],
           [cls |-> TileID.BigSlime, name |-> "none"],
           [cls |-> TileID.DragonEgg, name |-> "none"] >>

\* The classes a caller of the Floor methods draws from.
LayerMenu == 1 .. 3

\* The reference of the i-th tile object the call for menu entry e creates.
NewRef(e, i) == (e - 1) * (MaxCount + 1) + i

\* The populated coordinates whose tile is not fixed yet: the current layer.
Unfixed(F) == {c \in F.populated : ~F.obj[F.tiles[c]].fixed}

\* The sequences that list every member of the set S once.
RECURSIVE Perms(_)
Perms(S) ==
    IF S = {} THEN {<<>>}
    ELSE UNION {{<<c>> \o p : p \in Perms(S \ {c})} : c \in S}

\* The orders in which iterating the set `populated` can yield its members.
\* A fixed tile is skipped as anchor and as candidate, so that what a fixed
\* coordinate's place in the order is changes nothing: the orders listed are
\* every order of the unfixed coordinates, followed by the fixed ones.
Orders(F) ==
    LET InSet(c) == c \in F.populated \ Unfixed(F)
        fixed_last == SelectSeq(RowMajor(F), InSet)
    IN  {p \o fixed_last : p \in Perms(Unfixed(F))}

\* What the attribute contains of a tile holds: nothing (None), an object
\* (a tile instance, known by its reference) or a class.
NoContains == [kind |-> "none", id |-> TileID.NaN, ref |-> None]

\* The reference of the object the constructor of the tile of reference r
\* creates for its contains, and of the object a caller creates for the
\* keyword argument of its call for menu entry e: all different, and
\* different from the references of the tiles of the floor.
OwnRef(r) == 1000 + r
ArgumentRef(e) == 2000 + e

\* What the constructor of the class leaves in contains of the tile of
\* reference r: Chest() a Treasure(5) of its own, every other class None.
constructed(cls, r) ==
    IF cls = TileID.Chest
    THEN [kind |-> "instance", id |-> TileID.Treasure, ref |-> OwnRef(r)]
    ELSE NoContains

\* The keyword arguments of add_tile as far as contains goes: not given, or
\* given with a value.
NoKwarg == [given |-> FALSE, value |-> NoContains]

\* The attribute contains of every tile after add_tile has turned the floor
\* into G: each tile the call created keeps what its constructor left, or
\* takes the value of the keyword argument, the same value for each of them.
set_contains(old, G, cls, kw) ==
    [r \in DOMAIN G.obj |->
        IF r \in DOMAIN old THEN old[r]
        ELSE IF kw.given THEN kw.value
        ELSE constructed(cls, r)]

\* Player(): the player a game starts with.
Player == [max_hp |-> 4, current_hp |-> 4, xp |-> 0, level |-> 1, score |-> 0]

\* Game.run has not been called: no thread, no error stored, nothing ready,
\* the display not flipped.
NotRunning ==
    [main |-> "idle", thread |-> "none", running |-> FALSE,
     generation_error |-> None, dungeon_ready |-> FALSE, elapsed |-> 0,
     flipped |-> FALSE, raised |-> None]

\* generate_dungeon at its first call on the floor of a new Dungeon().
NotGenerating ==
    [step |-> 1, status |-> "running", requested |-> 0, placed |-> 0,
     occupied |-> 0, unfixed |-> 0, get_tile |-> FALSE]

\* No call has been made yet.
NoCall == [op |-> "none", args |-> <<>>, cls |-> TileID.NaN, count |-> 0, name |-> "none",
           empty_before |-> 0, placed |-> 0, ret |-> None,
           entry |-> 0, exit |-> 0, log |-> <<>>, raised |-> FALSE]

\* Floor(w, h): a grid of fresh BoardTile() objects, nothing populated,
\* satisfaction 0.
FloorInit(w, h) ==
    /\ width = w
    /\ height = h
    /\ tiles = [c \in CellsOf(w, h) |-> InitialRef(w, c)]
    /\ obj = [r \in {InitialRef(w, c) : c \in CellsOf(w, h)} |-> BoardTile]
    /\ populated = {}
    /\ satisfaction = 0
    /\ call = NoCall
    /\ direct = 0
    /\ pc = 1
    /\ contains = [r \in {InitialRef(w, c) : c \in CellsOf(w, h)} |-> NoContains]
    /\ player = Player
    /\ chest_locations = <<>>
    /\ wall_locations = <<>>
    /\ display = <<>>
    /\ run = NotRunning
    /\ gen = NotGenerating

Init ==
    \E w \in 1 .. Width, h \in 1 .. Height :
      /\ w * h <= MaxCells
      /\ FloorInit(w, h)

\* The floor object takes the value G.
Becomes(G) ==
    /\ width' = G.width
    /\ height' = G.height
    /\ tiles' = G.tiles
    /\ obj' = G.obj
    /\ populated' = G.populated
    /\ satisfaction' = G.satisfaction

\* A call floor.add_tile(Menu[e].cls, count, name=Menu[e].name, **kw), where
\* kw holds the keyword argument contains or nothing more.  It returns None
\* whatever it places.
AddTileKwargs(e, count, kw) ==
    \E picks \in [1 .. count -> CellsOf(width, height)] :
      /\ picks_possible(Floor, count, picks, 1)
      /\ \E R \in {add_tile(Floor, Menu[e].cls, count, Menu[e].name,
                            [i \in 1 .. count |-> NewRef(e, i)], picks)} :
           /\ Becomes(R.F)
           /\ contains' = set_contains(contains, R.F, Menu[e].cls, kw)
           /\ call' = [NoCall EXCEPT !.op = "add_tile", !.cls = Menu[e].cls,
                         !.count = count, !.name = Menu[e].name,
                         !.empty_before = Cardinality(empty_positions(Floor)),
                         !.placed = R.placed, !.ret = None]

\* The call without the keyword argument contains.
AddTileCall(e, count) == AddTileKwargs(e, count, NoKwarg)

\* A call floor.post_process_layer().  The call record keeps the total
\* happiness at entry and at return and the log of the anchors processed.
PostProcessLayerCall ==
    \E order \in Orders(Floor) :
      \E R \in {post_process_layer(Floor, order)} :
        /\ Becomes(R.F)
        /\ call' = [NoCall EXCEPT !.op = "post_process_layer",
                      !.entry = R.entry, !.exit = R.exit, !.log = R.log]
        /\ UNCHANGED contains

\* A caller adds tiles of a class of the menu it has not asked for yet.
AddTile(e) ==
    \E count \in 1 .. MaxCount :
      /\ NewRef(e, 1) \notin DOMAIN obj
      /\ Cardinality(populated) + count <= MaxTiles
      /\ Cardinality(Unfixed(Floor)) + count <= MaxLayer
      /\ AddTileCall(e, count)
      /\ UNCHANGED <<direct, pc, player, chest_locations, wall_locations, display, run, gen>>

\* A caller closes the layer.
PostProcessLayer ==
    /\ PostProcessLayerCall
    /\ UNCHANGED <<direct, pc, player, chest_locations, wall_locations, display, run, gen>>

Next ==
    \/ \E e \in LayerMenu : AddTile(e)
    \/ PostProcessLayer

Spec == Init /\ [][Next]_vars

\* --------------------------------------------- dungeon.py: generate_dungeon
\* The calls of a generation in two layers, as generate_dungeon makes them
\* layer after layer: a menu entry stands for add_tile of one tile of that
\* class, 0 for post_process_layer.
Layers == <<1, 0, 2, 4, 5, 3, 0>>

\* The floor the generation fills: Floor(GenWidth, GenHeight), where
\* Dungeon.__init__ builds Floor(config.grid_columns, config.grid_rows).
GenWidth == 5
GenHeight == 1

InitLayers == FloorInit(GenWidth, GenHeight)

\* The next call of the generation.
GenerateDungeon ==
    /\ pc <= Len(Layers)
    /\ IF Layers[pc] = 0 THEN PostProcessLayerCall ELSE AddTileCall(Layers[pc], 1)
    /\ pc' = pc + 1
    /\ UNCHANGED <<direct, player, chest_locations, wall_locations, display, run, gen>>

SpecLayers == InitLayers /\ [][GenerateDungeon]_vars

\* ------------------------------------------- the methods called one by one
\* A call floor.set_populated(x, y, is_populated) by a caller of the class,
\* with coordinates on the floor or just past its last column or row.
SetPopulated(x, y, b) ==
    /\ direct < MaxDirect
    /\ direct' = direct + 1
    /\ Becomes(set_populated(Floor, x, y, b))
    /\ call' = [NoCall EXCEPT !.op = "set_populated", !.args = <<x, y, b>>, !.ret = None]
    /\ UNCHANGED <<pc, contains, player, chest_locations, wall_locations, display, run, gen>>

\* A call floor._swap_tiles(a, b) on two tiles of the grid that are not empty.
SwapTiles(a, b) ==
    /\ obj[a].id # TileID.Empty
    /\ obj[b].id # TileID.Empty
    /\ Becomes(swap_tiles(Floor, a, b))
    /\ call' = [NoCall EXCEPT !.op = "_swap_tiles", !.args = <<a, b>>, !.ret = None]
    /\ UNCHANGED <<direct, pc, contains, player, chest_locations, wall_locations, display, run, gen>>

\* The classes the callers of the single methods draw from.
ApiMenu == 1 .. 2

NextApi ==
    \/ \E e \in ApiMenu : AddTile(e)
    \/ PostProcessLayer
    \/ \E x \in 0 .. width, y \in 0 .. height, b \in BOOLEAN : SetPopulated(x, y, b)
    \/ \E c, d \in DOMAIN tiles : SwapTiles(tiles[c], tiles[d])

\* The floors the methods are called on one by one.
InitApi ==
    \E w \in 1 .. Width, h \in 1 .. Height :
      /\ w * h <= ApiCells
      /\ FloorInit(w, h)

SpecApi == InitApi /\ [][NextApi]_vars

\* ------------------------------------------------------- scoring a floor
\* The classes whose score depends on what is around them.
ScoreMenu == 6 .. 7

\* A caller adds tiles of a class of the score menu it has not asked for yet.
AddScoreTile(e) ==
    \E count \in 1 .. MaxCount :
      /\ NewRef(e, 1) \notin DOMAIN obj
      /\ Cardinality(populated) + count <= MaxTiles
      /\ AddTileCall(e, count)
      /\ UNCHANGED <<direct, pc, player, chest_locations, wall_locations, display, run, gen>>

\* A variant of the call that marks the tiles it scores as fixed:
\* HappinessIsPure tells it from the code's.
HappinessCallFixing ==
    /\ Becomes(fix_tiles(Floor))
    /\ call' = [NoCall EXCEPT !.op = "happiness", !.ret = happiness(Floor)]
    /\ UNCHANGED <<direct, pc, contains, player, chest_locations, wall_locations, display, run, gen>>

\* A call happiness(floor): it reads the floor and returns the total.
HappinessCall ==
    /\ call' = [NoCall EXCEPT !.op = "happiness", !.raised = happiness_raises(Floor),
                  !.ret = IF happiness_raises(Floor) THEN None ELSE happiness(Floor)]
    /\ UNCHANGED <<width, height, tiles, obj, populated, satisfaction, direct, pc, contains, player, chest_locations, wall_locations, display, run, gen>>

NextScore ==
    \/ \E e \in ScoreMenu : AddScoreTile(e)
    \/ HappinessCall

SpecScore == Init /\ [][NextScore]_vars

\* ------------------------------------------------------ utils.py, by cell
\* The cells of the grid the configuration describes.
ConfigCells == (0 .. config.grid_columns - 1) \X (0 .. config.grid_rows - 1)

\* A caller asks is_corner, is_edge and is_center about the cell (tx, ty).
GeometryCall(tx, ty) ==
    /\ call' = [NoCall EXCEPT !.op = "geometry", !.args = <<tx, ty>>,
                  !.ret = <<is_corner(tx, ty), is_edge(tx, ty), is_center(tx, ty)>>]
    /\ UNCHANGED <<width, height, tiles, obj, populated, satisfaction, direct, pc, contains, player, chest_locations, wall_locations, display, run, gen>>

InitUtils == FloorInit(1, 1)

NextUtils == \E c \in ConfigCells : GeometryCall(c[1], c[2])

SpecUtils == InitUtils /\ [][NextUtils]_vars

\* ------------------------------------------- add_tile with contains=...
\* The classes generate_dungeon gives a contains to.
ContainsMenu == 7 .. 8

\* The keyword arguments generate_dungeon passes for contains: one
\* Treasure(1) object, built once where the call is written, for the walls;
\* the class Medikit for the chests; or nothing.
Kwargs(e) ==
    { NoKwarg,
      IF Menu[e].cls = TileID.Wall
      THEN [given |-> TRUE,
            value |-> [kind |-> "instance", id |-> TileID.Treasure, ref |-> ArgumentRef(e)]]
      ELSE [given |-> TRUE,
            value |-> [kind |-> "class", id |-> TileID.Medikit, ref |-> None]] }

\* A caller adds walls or chests, with or without the keyword argument.
AddTileContains(e) ==
    \E count \in 1 .. MaxCount, kw \in Kwargs(e) :
      /\ NewRef(e, 1) \notin DOMAIN obj
      /\ Cardinality(populated) + count <= MaxTiles
      /\ AddTileKwargs(e, count, kw)
      /\ UNCHANGED <<direct, pc, player, chest_locations, wall_locations, display, run, gen>>

NextContains == \E e \in ContainsMenu : AddTileContains(e)

SpecContains == Init /\ [][NextContains]_vars

\* ------------------------------------ monsters/entity_definitions.py
\* The keys of ENTITY_REGISTRY.
ENTITY_REGISTRY ==
    { TileID.Bat, TileID.BigSlime, TileID.DarkKnight, TileID.Death, TileID.Dragon,
      TileID.DragonEgg, TileID.Eye, TileID.Fidel, TileID.Gargoyle, TileID.Gazer,
      TileID.Giant, TileID.Gnome, TileID.Guard, TileID.Mimic, TileID.Mine,
      TileID.MineKing, TileID.Minotaur, TileID.Rat, TileID.RatKing, TileID.Skeleton,
      TileID.Slime, TileID.Snake, TileID.Wizard, TileID.Chest, TileID.Crown,
      TileID.Medikit, TileID.Orb, TileID.Treasure, TileID.Wall, TileID.Decoration,
      TileID.SpellDisarm, TileID.SpellMakeOrb, TileID.SpellRevealRats,
      TileID.SpellRevealSlimes }

\* The largest identifier a caller asks the factory about.
MaxEntityId == 36

\* The identifiers a caller asks about: those of TileID and some past them.
EntityIds == TileID.NaN .. MaxEntityId

\* EntityFactory.get_definition(tile_id): self.registry.get(tile_id), which
\* is the definition (known here by its id) or None, and raises nothing.
get_definition(tile_id) ==
    [raised |-> FALSE, value |-> IF tile_id \in ENTITY_REGISTRY THEN tile_id ELSE None]

\* EntityFactory.create(tile_id, name=name): ValueError for an identifier
\* get_definition knows nothing of, else a tile (known here by its id) loaded
\* from the definition, with the keyword arguments set on it.
create(tile_id, name) ==
    LET definition == get_definition(tile_id).value
    IN  IF definition = None
        THEN [raised |-> TRUE, value |-> None, name |-> "none"]
        ELSE [raised |-> FALSE, value |-> definition, name |-> name]

\* A caller looks an identifier up.
GetDefinitionCall(tile_id) ==
    /\ \E R \in {get_definition(tile_id)} :
         call' = [NoCall EXCEPT !.op = "get_definition", !.args = <<tile_id>>,
                    !.ret = R.value, !.raised = R.raised]
    /\ UNCHANGED <<width, height, tiles, obj, populated, satisfaction, direct, pc, contains, player, chest_locations, wall_locations, display, run, gen>>

\* A caller has the factory create a tile, with or without a name of its own.
CreateCall(tile_id, name) ==
    /\ \E R \in {create(tile_id, name)} :
         call' = [NoCall EXCEPT !.op = "create", !.args = <<tile_id>>, !.name = R.name,
                    !.ret = R.value, !.raised = R.raised]
    /\ UNCHANGED <<width, height, tiles, obj, populated, satisfaction, direct, pc, contains, player, chest_locations, wall_locations, display, run, gen>>

NextCatalog ==
    \/ \E tile_id \in EntityIds : GetDefinitionCall(tile_id)
    \/ \E tile_id \in EntityIds, name \in {"none", "guard1"} : CreateCall(tile_id, name)

SpecCatalog == InitUtils /\ [][NextCatalog]_vars

\* -------------------------------------------------------------- player.py
\* Player.xp_lut and Player.hp_cap
xp_lut == <<0, 4, 5, 7, 9, 9, 10, 12, 12, 12, 15, 18, 21, 21, 25>>
hp_cap == 19

\* The level past which, and the score past which, the player is followed no
\* further.
MaxLevel == 16
MaxScore == 3

\* utils.is_level_halfheart(level)
is_level_halfheart(level) == level % 2 = 0

\* Player.xp_to_next_level(level); xp_lut[i] of the code is xp_lut[i + 1] here.
xp_to_next_level(level) == xp_lut[Min(level, Len(xp_lut) - 1) + 1]

\* The test of level_up, on the level just reached: whether max_hp goes up.
raises_max_hp(max_hp, level) == max_hp < hp_cap /\ ~is_level_halfheart(level)

\* Player.level_up()
level_up(P) ==
    LET level == P.level + 1
        max_hp == IF raises_max_hp(P.max_hp, level) THEN P.max_hp + 1 ELSE P.max_hp
    IN  [P EXCEPT !.xp = @ - xp_to_next_level(P.level), !.level = level,
                  !.max_hp = max_hp, !.current_hp = max_hp]

\* Player.gain_xp(amount)
gain_xp(P, amount) == [P EXCEPT !.xp = @ + amount, !.score = @ + amount]

\* Player.lose_hp(amount): the hit is taken before the death of the player
\* raises NotImplementedError.
lose_hp(P, amount) == [P EXCEPT !.current_hp = @ - amount]

\* Player.heal(amount)
heal(P, amount) == [P EXCEPT !.current_hp = Min(@ + amount, P.max_hp)]

LevelUp ==
    /\ player.level < MaxLevel
    /\ player.current_hp >= 0
    /\ player' = level_up(player)
    /\ call' = [NoCall EXCEPT !.op = "level_up", !.ret = None]
    /\ UNCHANGED <<width, height, tiles, obj, populated, satisfaction, direct, pc, contains, chest_locations, wall_locations, display, run, gen>>

GainXp(amount) ==
    /\ player.score + amount <= MaxScore
    /\ player.current_hp >= 0
    /\ player' = gain_xp(player, amount)
    /\ call' = [NoCall EXCEPT !.op = "gain_xp", !.args = <<amount>>, !.ret = None]
    /\ UNCHANGED <<width, height, tiles, obj, populated, satisfaction, direct, pc, contains, chest_locations, wall_locations, display, run, gen>>

LoseHp(amount) ==
    /\ player.current_hp >= 0
    /\ player' = lose_hp(player, amount)
    /\ call' = [NoCall EXCEPT !.op = "lose_hp", !.args = <<amount>>, !.ret = None,
                  !.raised = player'.current_hp < 0]
    /\ UNCHANGED <<width, height, tiles, obj, populated, satisfaction, direct, pc, contains, chest_locations, wall_locations, display, run, gen>>

Heal ==
    /\ player.current_hp >= 0
    /\ player' = heal(player, 100)
    /\ call' = [NoCall EXCEPT !.op = "heal", !.args = <<100>>, !.ret = None]
    /\ UNCHANGED <<width, height, tiles, obj, populated, satisfaction, direct, pc, contains, chest_locations, wall_locations, display, run, gen>>

NextPlayer ==
    \/ LevelUp
    \/ \E amount \in 1 .. 2 : GainXp(amount)
    \/ \E amount \in 1 .. 2 : LoseHp(amount)
    \/ Heal

SpecPlayer == InitUtils /\ [][NextPlayer]_vars

\* ------------------------------------------------------- the two giants
\* The two giants of generate_dungeon: romeo and juliet.
GiantMenu == 9 .. 10

\* The rows of the floor the giants are placed on; its columns are those of
\* the configuration, which the Giant case of happiness reads.
GiantRows == 2

InitGiants == FloorInit(config.grid_columns, GiantRows)

\* add_tile(creatures.Giant, count=1, name=...), once for each giant.
AddGiant(e) ==
    /\ NewRef(e, 1) \notin DOMAIN obj
    /\ AddTileCall(e, 1)
    /\ UNCHANGED <<direct, pc, player, chest_locations, wall_locations, display, run, gen>>

NextGiants ==
    \/ \E e \in GiantMenu : AddGiant(e)
    \/ HappinessCall

SpecGiants == InitGiants /\ [][NextGiants]_vars

\* ---------------------------------------------------- get_tiles_in_radius
\* A call floor.get_tiles_in_radius(center_x, center_y, two_r / 2) with the
\* center on the floor.
GetTilesInRadiusCall(center_x, center_y, two_r) ==
    /\ call' = [NoCall EXCEPT !.op = "get_tiles_in_radius",
                  !.args = <<center_x, center_y, two_r>>,
                  !.ret = get_tiles_in_radius(Floor, center_x, center_y, two_r)]
    /\ UNCHANGED <<width, height, tiles, obj, populated, satisfaction, direct, pc, contains, player, chest_locations, wall_locations, display, run, gen>>

\* Tiles are added, and the tiles around a cell are asked for with the radii
\* 1 and 1.5.
NextRadius ==
    \/ \E e \in ScoreMenu : AddScoreTile(e)
    \/ \E c \in DOMAIN tiles, two_r \in 2 .. 3 : GetTilesInRadiusCall(c[1], c[2], two_r)

SpecRadius == Init /\ [][NextRadius]_vars

\* ------------------------------------------- the shuffle of each pass
\* The most tiles a layer holds when the shuffles of its passes are followed.
MaxShuffled == 2

\* A caller adds tiles of a class of the menu it has not asked for yet, to a
\* layer of at most MaxShuffled tiles.
AddShuffleTile(e) ==
    \E count \in 1 .. MaxCount :
      /\ NewRef(e, 1) \notin DOMAIN obj
      /\ Cardinality(populated) + count <= MaxTiles
      /\ Cardinality(Unfixed(Floor)) + count <= MaxShuffled
      /\ AddTileCall(e, count)
      /\ UNCHANGED <<direct, pc, player, chest_locations, wall_locations, display, run, gen>>

\* A call floor.post_process_layer() with what random.shuffle makes, on each
\* pass, of the list all_tiles() hands it: shuffled[p] is that list after the
\* shuffle of pass p, its fixed tiles left out.  The list is a temporary of
\* the statement `random.shuffle(self.all_tiles())`: nothing reads it again,
\* and the call goes on as post_process_layer does for any shuffle.
PostProcessLayerShuffled ==
    /\ \E order \in Orders(Floor) :
         \E R \in {post_process_layer(Floor, order)} :
           \E shuffled \in [1 .. Passes -> Perms({tiles[c] : c \in Unfixed(Floor)})] :
             /\ Becomes(R.F)
             /\ call' = [NoCall EXCEPT !.op = "post_process_layer", !.args = shuffled,
                           !.entry = R.entry, !.exit = R.exit, !.log = R.log]
    /\ UNCHANGED <<direct, pc, contains, player, chest_locations, wall_locations, display, run, gen>>

NextShuffle ==
    \/ \E e \in LayerMenu : AddShuffleTile(e)
    \/ PostProcessLayerShuffled

SpecShuffle == Init /\ [][NextShuffle]_vars

\* -------------------------------------------- dungeon.py: finalize_floor
\* utils.res_to_frame(x, y)
res_to_frame(x, y) == (x \div 16) + (y \div 16) * 16

\* wall_hps of _collect_wall_locations
wall_hps == <<3, 3, 3, 3, 3, 3>>

\* What finalize_floor has written on a tile it has not touched: nothing.
\* The constructor's values of these fields are not followed.
Untouched == [strip_frame |-> None, wallHP |-> None, wallMaxHP |-> None,
              minotaurChestLocation |-> <<>>]

\* The coordinates (tile.tx, tile.ty) of the tiles of the list.
coordinates(F, found) == [i \in 1 .. Len(found) |-> <<F.obj[found[i]].tx, F.obj[found[i]].ty>>]

\* The frame the Gargoyle branch leaves on tile t: that of the last other
\* gargoyle of the same name, in get_tile_list order, that is in another
\* column or row; None when there is none.
RECURSIVE gargoyle_frame(_, _, _, _, _)
gargoyle_frame(F, t, others, i, frame) ==
    IF i > Len(others) THEN frame
    ELSE LET o == F.obj[t]
             g == F.obj[others[i]]
             next ==
                IF others[i] = t \/ g.name # o.name THEN frame
                ELSE IF o.tx < g.tx THEN res_to_frame(0, 210)
                ELSE IF o.tx > g.tx THEN res_to_frame(0, 210) + 3
                ELSE IF o.ty < g.ty THEN res_to_frame(0, 210) + 1
                ELSE IF o.ty > g.ty THEN res_to_frame(0, 210) + 2
                ELSE frame
         IN  gargoyle_frame(F, t, others, i + 1, next)

\* The chest the Minotaur branch leaves in minotaurChestLocation of tile t:
\* the last entry of chest_locations within 1.5 of it.
RECURSIVE minotaur_chest(_, _, _, _, _)
minotaur_chest(F, t, locations, i, found) ==
    IF i > Len(locations) THEN found
    ELSE minotaur_chest(F, t, locations, i + 1,
            IF distance_le(F.obj[t].tx, F.obj[t].ty, locations[i][1], locations[i][2], 3)
            THEN locations[i] ELSE found)

\* The body of `for tile in self.all_tiles()` for the tile t, whose fields
\* written so far are d: the branch of the if / elif chain that applies.
annotate(F, t, locations, d) ==
    LET o == F.obj[t]
    IN  IF o.name = "guard1" THEN [d EXCEPT !.strip_frame = res_to_frame(200, 200)]
        ELSE IF o.name = "guard2" THEN [d EXCEPT !.strip_frame = res_to_frame(200, 200) + 1]
        ELSE IF o.name = "guard3" THEN [d EXCEPT !.strip_frame = res_to_frame(200, 200) + 2]
        ELSE IF o.name = "guard4" THEN [d EXCEPT !.strip_frame = res_to_frame(200, 200) + 3]
        ELSE IF o.id = TileID.Minotaur
        THEN [d EXCEPT !.minotaurChestLocation =
                  minotaur_chest(F, t, locations, 1, d.minotaurChestLocation)]
        ELSE IF o.id = TileID.Gargoyle
        THEN [d EXCEPT !.strip_frame =
                  gargoyle_frame(F, t, get_tile_list(F, TileID.Gargoyle), 1, d.strip_frame)]
        ELSE d

\* A variant of finalize_floor that also takes the chests off the populated
\* set: FinalizePlacesNothing tells it from the code's.
finalize_floor_unpopulating(F, chests, walls, shown) ==
    [F |-> [F EXCEPT !.populated = @ \ {<<F.obj[t].tx, F.obj[t].ty>> : t \in
                {r \in DOMAIN F.obj : F.obj[r].id = TileID.Chest}}],
     chest_locations |-> chests, wall_locations |-> walls, display |-> shown]

\* Floor.finalize_floor() on the floor F whose chest_locations, wall_locations
\* and written tile fields are chests, walls and shown: the lists get the
\* coordinates of the chest and wall tiles appended, each wall its HP (the
\* i-th wall wall_hps[i % 6]), and each populated tile its branch of the
\* loop, which reads the tile and the lists only, so that the order of the
\* loop changes nothing.  The floor itself is handed back as it came.
finalize_floor(F, chests, walls, shown) ==
    LET chest_tiles == get_tile_list(F, TileID.Chest)
        wall_tiles == get_tile_list(F, TileID.Wall)
        locations == chests \o coordinates(F, chest_tiles)
        touched == {F.tiles[c] : c \in F.populated} \cup {wall_tiles[i] : i \in DOMAIN wall_tiles}
        Before(r) == IF r \in DOMAIN shown THEN shown[r] ELSE Untouched
        WallIndex(r) == CHOOSE i \in DOMAIN wall_tiles : wall_tiles[i] = r
        Walled(r) ==
            IF \E i \in DOMAIN wall_tiles : wall_tiles[i] = r
            THEN [Before(r) EXCEPT !.wallHP = wall_hps[((WallIndex(r) - 1) % Len(wall_hps)) + 1],
                                   !.wallMaxHP = wall_hps[((WallIndex(r) - 1) % Len(wall_hps)) + 1]]
            ELSE Before(r)
    IN  [F |-> F,
         chest_locations |-> locations,
         wall_locations |-> walls \o coordinates(F, wall_tiles),
         display |-> [r \in DOMAIN shown \cup touched |->
                        IF r \in {F.tiles[c] : c \in F.populated}
                        THEN annotate(F, r, locations, Walled(r))
                        ELSE Walled(r)]]

\* The classes of generate_dungeon that finalize_floor looks at.
FinalMenu == {6, 7, 8, 11, 12}

\* generate_dungeon adds the tiles of its layers, until it finalizes.
AddFinalTile(e) ==
    \E count \in 1 .. MaxCount :
      /\ pc = 1
      /\ NewRef(e, 1) \notin DOMAIN obj
      /\ Cardinality(populated) + count <= MaxTiles
      /\ AddTileCall(e, count)
      /\ UNCHANGED <<direct, pc, player, chest_locations, wall_locations, display, run, gen>>

\* generate_dungeon's last call on the floor: current_floor.finalize_floor().
FinalizeFloor ==
    /\ pc = 1
    /\ pc' = 2
    /\ \E R \in {finalize_floor(Floor, chest_locations, wall_locations, display)} :
         /\ Becomes(R.F)
         /\ chest_locations' = R.chest_locations
         /\ wall_locations' = R.wall_locations
         /\ display' = R.display
    /\ call' = [NoCall EXCEPT !.op = "finalize_floor", !.ret = None]
    /\ UNCHANGED <<direct, contains, player, run, gen>>

NextFinalize ==
    \/ \E e \in FinalMenu : AddFinalTile(e)
    \/ FinalizeFloor

SpecFinalize == Init /\ [][NextFinalize]_vars

\* ------------------------------------------------ scoring partial layers
\* Classes whose case looks for a partner (BigSlime a Wizard, DragonEgg a
\* Dragon, Gnome a Medikit, Minotaur a Chest, Giant another Giant), none of
\* the partners, and MineKing, which scores by its own position.
PartialMenu == {2, 4, 6, 9, 13, 14}

NextPartial ==
    \/ \E e \in PartialMenu : AddScoreTile(e)
    \/ HappinessCall

SpecPartial == Init /\ [][NextPartial]_vars

\* ------------------------------------------- count_identical_neighbors
\* The classes that are scored by their neighbours of the same class.
NeighborMenu == {5, 7}

\* A call count_identical_neighbors(floor, t, radius) for a tile t of the
\* floor.
CountIdenticalNeighborsCall(t, radius) ==
    /\ call' = [NoCall EXCEPT !.op = "count_identical_neighbors", !.args = <<t, radius>>,
                  !.ret = count_identical_neighbors(Floor, t, radius)]
    /\ UNCHANGED <<width, height, tiles, obj, populated, satisfaction, direct, pc, contains, player, chest_locations, wall_locations, display, run, gen>>

NextNeighbors ==
    \/ \E e \in NeighborMenu : AddScoreTile(e)
    \/ \E c \in populated, radius \in 1 .. 3 : CountIdenticalNeighborsCall(tiles[c], radius)
    \/ HappinessCall

SpecNeighbors == Init /\ [][NextNeighbors]_vars

\* -------------------------------------------------------- game.py: Game.run
\* The exception objects generate_dungeon may raise, by reference.
Exceptions == {1, 2}

\* The frame rate of the loading animation: self.clock.tick(24).
loading_fps == 24

\* minimum_load_duration = 0.5 seconds, counted in frames of the animation.
minimum_load_duration == loading_fps \div 2

\* Elapsed time is recorded up to MaxElapsed frames; a loop iteration takes
\* 1 .. MaxFrameCost frames.  The loop compares the elapsed time with
\* minimum_load_duration only, so that later times are all alike.
MaxElapsed == 40
MaxFrameCost == 2

\* Game.run up to the loading loop: running is set, the locals are
\* initialised, the daemon thread is started and start_time is taken.
RunStart ==
    /\ run.main = "idle"
    /\ run' = [run EXCEPT !.main = "loading", !.running = TRUE,
                          !.thread = "started", !.generation_error = None,
                          !.dungeon_ready = FALSE, !.elapsed = 0]
    /\ UNCHANGED <<width, height, tiles, obj, populated, satisfaction, call,
                   direct, pc, contains, player, chest_locations,
                   wall_locations, display, gen>>

\* generate_dungeon_threaded, the thread's target: generate_dungeon returns
\* and dungeon_ready becomes True, or it raises e and e is stored in
\* generation_error, dungeon_ready staying as it is.
GenerateDungeonThreaded ==
    /\ run.thread = "started"
    /\ \E e \in {None} \cup Exceptions :
         run' = IF e = None
                THEN [run EXCEPT !.thread = "returned", !.dungeon_ready = TRUE]
                ELSE [run EXCEPT !.thread = "raised", !.generation_error = e]
    /\ UNCHANGED <<width, height, tiles, obj, populated, satisfaction, call,
                   direct, pc, contains, player, chest_locations,
                   wall_locations, display, gen>>

\* One iteration of the loading loop that animates: the minimum duration is
\* not over or dungeon_ready is False.  The frame is drawn and
\* pygame.display.flip() exchanges the display's two buffers.
LoadingFrame ==
    /\ run.main = "loading"
    /\ run.elapsed < minimum_load_duration \/ ~run.dungeon_ready
    /\ \E d \in 1 .. MaxFrameCost :
         run' = [run EXCEPT !.elapsed = IF @ + d > MaxElapsed THEN MaxElapsed ELSE @ + d,
                            !.flipped = ~@]
    /\ UNCHANGED <<width, height, tiles, obj, populated, satisfaction, call,
                   direct, pc, contains, player, chest_locations,
                   wall_locations, display, gen>>

\* The iteration that breaks out of the loading loop, and the check that
\* follows it: a stored generation_error is raised to the caller of run,
\* else the game loop is entered.
LoadingDone ==
    /\ run.main = "loading"
    /\ ~(run.elapsed < minimum_load_duration \/ ~run.dungeon_ready)
    /\ run' = IF run.generation_error # None
              THEN [run EXCEPT !.main = "raised", !.raised = run.generation_error]
              ELSE [run EXCEPT !.main = "game_loop"]
    /\ UNCHANGED <<width, height, tiles, obj, populated, satisfaction, call,
                   direct, pc, contains, player, chest_locations,
                   wall_locations, display, gen>>

\* The game loop until _handle_events sees QUIT or ESCAPE: running becomes
\* False, the loop ends, shutdown() is called and run returns.
GameLoop ==
    /\ run.main = "game_loop"
    /\ run' = [run EXCEPT !.main = "returned", !.running = FALSE]
    /\ UNCHANGED <<width, height, tiles, obj, populated, satisfaction, call,
                   direct, pc, contains, player, chest_locations,
                   wall_locations, display, gen>>

NextRun ==
    \/ RunStart
    \/ GenerateDungeonThreaded
    \/ LoadingFrame
    \/ LoadingDone
    \/ GameLoop

\* The thread, once started, is scheduled and generate_dungeon ends (it
\* returns or raises); the caller's loop keeps iterating; the user ends the
\* game at some time.
SpecRun ==
    /\ InitUtils
    /\ [][NextRun]_vars
    /\ WF_vars(GenerateDungeonThreaded)
    /\ WF_vars(LoadingFrame)
    /\ WF_vars(LoadingDone)
    /\ WF_vars(GameLoop)


\* ------------------------------- dungeon.py: generate_dungeon, by its counts
\* The calls generate_dungeon makes on the floor before finalize_floor, in
\* order: add_tile(cls, count) as [cls, count], post_process_layer() as
\* [TileID.NaN, 0].
generate_dungeon_calls ==
    LET add(cls, count) == [cls |-> cls, count |-> count]
        end_layer == [cls |-> TileID.NaN, count |-> 0]
    IN  << add(TileID.Dragon, 1), add(TileID.Wizard, 1), end_layer,
           add(TileID.BigSlime, 5), end_layer,
           add(TileID.MineKing, 1), end_layer,
           add(TileID.Giant, 1), add(TileID.Giant, 1), end_layer,
           add(TileID.RatKing, 1), add(TileID.Wall, 6), add(TileID.Minotaur, 5),
           add(TileID.Guard, 1), add(TileID.Guard, 1), add(TileID.Guard, 1),
           add(TileID.Guard, 1), add(TileID.Gargoyle, 2), add(TileID.Gargoyle, 2),
           add(TileID.Gargoyle, 2), add(TileID.Gargoyle, 2), add(TileID.Gazer, 2),
           add(TileID.Mine, 9), add(TileID.Medikit, 5), add(TileID.Chest, 3),
           add(TileID.Chest, 2), add(TileID.Orb, 1), add(TileID.DragonEgg, 1),
           end_layer,
           add(TileID.Rat, 13), add(TileID.Bat, 12), add(TileID.Skeleton, 10),
           add(TileID.Slime, 8), add(TileID.Mimic, 1), add(TileID.Gnome, 1),
           add(TileID.SpellMakeOrb, 1), end_layer >>

\* The next call of generate_dungeon is add_tile(cls, count): the loop places
\* a tile per iteration until count are placed or no position is empty.  The
\* floor is kept by its counts; where the tiles land changes neither what
\* add_tile places nor whether happiness raises.
GenerateAddTile ==
    /\ gen.status = "running"
    /\ gen.step <= Len(generate_dungeon_calls)
    /\ generate_dungeon_calls[gen.step].cls # TileID.NaN
    /\ \E c \in {generate_dungeon_calls[gen.step]} :
       \E now \in {Min(c.count, width * height - gen.occupied)} :
         gen' = [gen EXCEPT !.step = @ + 1,
                            !.requested = @ + c.count,
                            !.placed = @ + now,
                            !.occupied = @ + now,
                            !.unfixed = @ + now,
                            !.get_tile = @ \/ (now > 0 /\ c.cls \in {TileID.BigSlime,
                                                                      TileID.DragonEgg})]
    /\ UNCHANGED <<width, height, tiles, obj, populated, satisfaction, call,
                   direct, pc, contains, player, chest_locations,
                   wall_locations, display, run>>

\* The next call is post_process_layer().  It calls happiness at entry when
\* Floor.satisfaction is 0 (which depends on where the tiles are: either
\* case is taken) and at each trial swap, of which there is one as soon as
\* two tiles are not fixed; happiness raises when a BigSlime or a DragonEgg
\* is on the floor.  Else the layer's tiles become fixed.
GeneratePostProcessLayer ==
    /\ gen.status = "running"
    /\ gen.step <= Len(generate_dungeon_calls)
    /\ generate_dungeon_calls[gen.step].cls = TileID.NaN
    /\ \E zero \in BOOLEAN :
         gen' = IF gen.get_tile /\ (zero \/ gen.unfixed >= 2)
                THEN [gen EXCEPT !.status = "raised"]
                ELSE [gen EXCEPT !.step = @ + 1, !.unfixed = 0]
    /\ UNCHANGED <<width, height, tiles, obj, populated, satisfaction, call,
                   direct, pc, contains, player, chest_locations,
                   wall_locations, display, run>>

\* After the last layer: finalize_floor(), and the dungeon is returned.
GenerateReturn ==
    /\ gen.status = "running"
    /\ gen.step = Len(generate_dungeon_calls) + 1
    /\ gen' = [gen EXCEPT !.status = "returned"]
    /\ UNCHANGED <<width, height, tiles, obj, populated, satisfaction, call,
                   direct, pc, contains, player, chest_locations,
                   wall_locations, display, run>>

\* The floors of Dungeon(): config.grid_columns by config.grid_rows, for the
\* values config.py gives and for every smaller grid.
InitGenerate ==
    \E w \in 1 .. config.grid_columns, h \in 1 .. config.grid_rows : FloorInit(w, h)

NextGenerate ==
    \/ GenerateAddTile
    \/ GeneratePostProcessLayer
    \/ GenerateReturn

SpecGenerate == InitGenerate /\ [][NextGenerate]_vars


\* ------------------------------------------------ happiness.py, the walls
\* The classes of the floors on which the walls are scored: Wizard, Medikit
\* and Wall.
WallMenu == {1, 5, 8}

NextWalls ==
    \/ \E e \in WallMenu : AddScoreTile(e)
    \/ HappinessCall

SpecWalls == Init /\ [][NextWalls]_vars


\* ------------------------------------------------------------ properties
\* The references of the tiles stored in the grid that are not empty.
Occupied == {r \in {tiles[c] : c \in DOMAIN tiles} : obj[r].id # TileID.Empty}

\* The anchors the last post_process_layer call processed.
Anchors == {call.log[i].anchor : i \in DOMAIN call.log}

\* C1: through add_tile and post_process_layer calls, a tile whose fixed flag
\* is true keeps its coordinate (tx, ty), its fixed flag and its grid slot:
\* no step moves it, swaps it or writes another tile over it.
FixedTilesStay ==
    [][\A c \in DOMAIN tiles :
          obj[tiles[c]].fixed =>
              /\ tiles'[c] = tiles[c]
              /\ obj'[tiles[c]] = obj[tiles[c]]]_vars

\* C1, its case: a post_process_layer call that found tiles fixed by an
\* earlier layer in place and committed a swap among the tiles of its own.
FixedTilesStayCase ==
    /\ call.op = "post_process_layer"
    /\ \E i \in DOMAIN call.log : call.log[i].replacement # None
    /\ Cardinality(Occupied) > Cardinality(Anchors)

\* C3: in every post_process_layer call, the floor's happiness right after an
\* anchor has been processed (its swap, if any, committed) is at least the
\* happiness right before the anchor was processed.
AnchorNeverLowersHappiness ==
    call.op = "post_process_layer" =>
        \A i \in DOMAIN call.log : call.log[i].after >= call.log[i].before

\* C4: the floor's happiness when post_process_layer returns is at least its
\* happiness when post_process_layer was entered.
LayerNeverLowersHappiness ==
    call.op = "post_process_layer" => call.exit >= call.entry

\* C6: add_tile with count = k on a floor with e unpopulated cells returns
\* having placed min(k, e) tiles, and e - min(k, e) cells stay unpopulated.
AddTilePlacesMin ==
    call.op = "add_tile" =>
        /\ call.placed = Min(call.count, call.empty_before)
        /\ Cardinality(empty_positions(Floor)) = call.empty_before - call.placed
        /\ Cardinality(Occupied) = width * height - Cardinality(empty_positions(Floor))

\* C6, its case: more tiles asked for than cells are empty, and some are empty.
AddTilePlacesMinCase ==
    /\ call.op = "add_tile"
    /\ call.empty_before > 0
    /\ call.count > call.empty_before

\* C7: what add_tile leaves out is observable: when two add_tile calls on the
\* same floor return the same value and leave the same floor, they have left
\* out the same number of the tiles asked for.
UnplacedObservable ==
    [][call'.op = "add_tile" =>
          \A k \in 1 .. MaxCount, picks \in [1 .. MaxCount -> DOMAIN tiles] :
              LET other == add_tile(Floor, call'.cls, k, call'.name,
                                    [i \in 1 .. MaxCount |-> tiles'[picks[i]]], picks)
              IN  (picks_possible(Floor, k, picks, 1) /\ other.F = Floor' /\ None = call'.ret)
                      => k - other.placed = call'.count - call'.placed]_vars

\* C8: when post_process_layer returns, every tile of the grid that is not
\* empty, whichever layer it came with, has fixed = TRUE.
AllFixedAtReturn ==
    call.op = "post_process_layer" => \A r \in Occupied : obj[r].fixed

\* C8, its case: a post_process_layer call on a floor that holds tiles of an
\* earlier layer and at least two tiles of the layer it closes.
AllFixedAtReturnCase ==
    /\ call.op = "post_process_layer"
    /\ Cardinality(Anchors) >= 2
    /\ Cardinality(Occupied) > Cardinality(Anchors)
    /\ \A r \in Occupied : obj[r].fixed

\* The coordinates whose tile is not empty.
OccupiedCells == {c \in DOMAIN tiles : obj[tiles[c]].id # TileID.Empty}

\* C2: in every state the methods of Floor lead to, direct set_populated and
\* _swap_tiles calls included, the populated set is the set of coordinates
\* whose stored tile has an id other than TileID.Empty.
PopulatedIsOccupied == populated = OccupiedCells

\* C5: for two tiles a and b of the grid that are not empty, _swap_tiles(a, b)
\* made twice gives back every tile's (tx, ty) and every grid slot's content,
\* and _swap_tiles(a, a) changes nothing.
SwapTwiceRestores ==
    \A a, b \in Occupied :
        /\ swap_tiles(swap_tiles(Floor, a, b), a, b) = Floor
        /\ swap_tiles(Floor, a, a) = Floor

\* C5, its case: _swap_tiles has just exchanged two different tiles, so that
\* the same call made again is the second of the two.
SwapTwiceRestoresCase ==
    /\ call.op = "_swap_tiles"
    /\ call.args[1] # call.args[2]
    /\ <<obj[call.args[1]].tx, obj[call.args[1]].ty>>
         # <<obj[call.args[2]].tx, obj[call.args[2]].ty>>
    /\ swap_tiles(Floor, call.args[1], call.args[2]) # Floor

WithinTwo(t, u) ==
    dist_squared(obj[t].tx, obj[t].ty, obj[u].tx, obj[u].ty) <= 2 * 2

\* The chests within Euclidean distance 2 of tile t.
ChestsInRange(t) == {u \in Occupied : obj[u].id = TileID.Chest /\ WithinTwo(t, u)}

\* Whether tile t is a Minotaur with no other Minotaur within distance 2.
LoneMinotaur(t) ==
    /\ obj[t].id = TileID.Minotaur
    /\ \A m \in Occupied \ {t} : obj[m].id = TileID.Minotaur => ~WithinTwo(t, m)

\* C10: a Minotaur with no other Minotaur within Euclidean distance 2 gets
\* the bonus of 10000 if and only if exactly one Chest is within Euclidean
\* distance 2 of it; no chest or more than one in range gives nothing.
MinotaurExactlyOneChest ==
    \A t \in Occupied :
        LoneMinotaur(t) =>
            /\ minotaur_happiness(Floor, t) \in {0, 10000}
            /\ minotaur_happiness(Floor, t) = 10000 <=> Cardinality(ChestsInRange(t)) = 1

\* C10, its case: the floor that has been scored holds a Minotaur with two
\* chests in range and, out of its range, another Minotaur: neither gets the
\* bonus, and the total is what the two chests take off for each other.
MinotaurExactlyOneChestCase ==
    /\ call.op = "happiness"
    /\ \E t, m \in Occupied :
          /\ t # m
          /\ LoneMinotaur(t)
          /\ obj[m].id = TileID.Minotaur
          /\ Cardinality(ChestsInRange(t)) = 2
    /\ call.ret = 0 - 2000

\* C11: on the 13x10 grid is_corner is true exactly for (0,0), (12,0), (0,9)
\* and (12,9), is_edge exactly for the cells with tx in {0, 12} or ty in
\* {0, 9}, and is_center exactly for the cell (6, 5).
GridGeometry ==
    call.op = "geometry" =>
        /\ call.ret[1] <=> call.args \in {<<0, 0>>, <<12, 0>>, <<0, 9>>, <<12, 9>>}
        /\ call.ret[2] <=> (call.args[1] \in {0, 12} \/ call.args[2] \in {0, 9})
        /\ call.ret[3] <=> call.args = <<6, 5>>

\* C11, its case: the three functions have been asked about the corner (12, 9).
GridGeometryCase ==
    /\ call.op = "geometry"
    /\ call.args = <<12, 9>>
    /\ call.ret = <<TRUE, TRUE, FALSE>>

\* C12: after any add_tile no two tiles of the floor reference the same
\* contained object, and what a tile contains is nothing or a tile instance,
\* never anything else.
ContainsOwned ==
    /\ \A t, u \in Occupied :
         (t # u /\ contains[t].kind = "instance" /\ contains[u].kind = "instance")
            => contains[t].ref # contains[u].ref
    /\ \A t \in Occupied : contains[t].kind \in {"none", "instance"}

\* C13: a set_populated call with x or y outside the grid ends in an error
\* raised to the caller.
OutOfBoundsFailsFast ==
    (/\ call.op = "set_populated"
     /\ ~(call.args[1] < width /\ call.args[2] < height))
        => call.raised

\* C13, the other half: a set_populated call with x or y outside the grid
\* leaves the populated set as it was.
OutOfBoundsChangesNothing ==
    [][(/\ call'.op = "set_populated"
        /\ ~(call'.args[1] < width /\ call'.args[2] < height))
            => populated' = populated]_vars

\* C14: a lookup of the factory with an identifier that is not a key of
\* ENTITY_REGISTRY raises an error to its caller and returns nothing.
UnknownIdFails ==
    (/\ call.op \in {"get_definition", "create"}
     /\ call.args[1] \notin ENTITY_REGISTRY)
        => call.raised

\* C14, for create alone: it raises for an unknown identifier and returns no
\* tile.
CreateUnknownRaises ==
    (call.op = "create" /\ call.args[1] \notin ENTITY_REGISTRY)
        => (call.raised /\ call.ret = None)

\* C15: the player's max HP follows the table of the class docstring as the
\* levels are gained through level_up: 5 at level 1 and one more at every odd
\* level up to 12 at level 15, the same at an even level as at the odd level
\* before it.
MaxHpFollowsTable ==
    player.level <= 15 => player.max_hp = 5 + (player.level - 1) \div 2

\* C15, what the code does instead: max HP is one below the table at every
\* level, 4 at level 1 and 11 at level 15.
MaxHpOneBelowTable ==
    player.level <= 15 => player.max_hp = 4 + (player.level - 1) \div 2

\* The highest score among the trials T of an anchor, and the place in T of
\* the last trial that reached it.
BestTrial(T) == CHOOSE m \in {T[k][2] : k \in DOMAIN T} : \A k \in DOMAIN T : T[k][2] <= m
LastBest(T) == CHOOSE k \in DOMAIN T : T[k][2] = BestTrial(T) /\ \A j \in DOMAIN T : (j > k => T[j][2] < BestTrial(T))

Giants == {t \in Occupied : obj[t].id = TileID.Giant}

\* C17: a Giant gets the symmetry bonus of 10000 exactly when it and the other
\* giant are in the same row and their columns mirror each other about the
\* center column of the 13-column grid: col_a + col_b = 12.
GiantsMirrorAboutCenterColumn ==
    \A t, u \in Giants :
        t # u =>
            (relational_happiness(Floor, t) >= 10000
                <=> (obj[t].ty = obj[u].ty /\ obj[t].tx + obj[u].tx = 12))

\* C17, what the code does instead: the columns mirror each other about
\* 13 / 2 = 6.5, between the columns 6 and 7: col_a + col_b = 13.
GiantsMirrorAboutHalfColumn ==
    \A t, u \in Giants :
        t # u =>
            (relational_happiness(Floor, t) >= 10000
                <=> (obj[t].ty = obj[u].ty /\ obj[t].tx + obj[u].tx = 13))

\* The tiles stored in the cells other than (cx, cy) that are within the
\* radius two_r / 2 of it.
StoredWithin(cx, cy, two_r) ==
    {tiles[c] : c \in {d \in DOMAIN tiles :
        d # <<cx, cy>> /\ distance_le(d[1], d[2], cx, cy, two_r)}}

\* What the last get_tiles_in_radius call returned, as a set.
Returned == {call.ret[i] : i \in DOMAIN call.ret}

\* C18: get_tiles_in_radius(cx, cy, r) returns exactly the tiles stored in
\* the cells other than (cx, cy) whose distance to (cx, cy) is at most r, on
\* any floor, floors with empty cells included.
RadiusIsByCell ==
    call.op = "get_tiles_in_radius" =>
        Returned = StoredWithin(call.args[1], call.args[2], call.args[3])

\* C18, on a floor without empty cells: there the tiles returned are the
\* tiles of the cells within the radius.
RadiusIsByCellWhenFull ==
    (call.op = "get_tiles_in_radius" /\ populated = DOMAIN tiles) =>
        Returned = StoredWithin(call.args[1], call.args[2], call.args[3])

\* The anchors the last post_process_layer call visited on pass p, in the
\* order it visited them.
AnchorsOfPass(p) ==
    LET InPass(e) == e.pass = p
        visited == SelectSeq(call.log, InPass)
    IN  [i \in 1 .. Len(visited) |-> visited[i].anchor]

\* C19: on each pass of post_process_layer the anchors are visited in the
\* order that pass's random shuffle produced.
AnchorsFollowShuffle ==
    call.op = "post_process_layer" =>
        \A p \in 1 .. Passes : AnchorsOfPass(p) = call.args[p]

\* The cells random.choice can return in the first iteration of an add_tile
\* call on the floor as it is.
FirstPicks ==
    {q[1] : q \in {p \in [1 .. 1 -> DOMAIN tiles] : picks_possible(Floor, 1, p, 1)}}

\* C20: an add_tile call writes its tiles only to cells that were unpopulated
\* (and empty), any unpopulated cell can be its choice, every cell that was
\* occupied keeps its tile as it was, fixed or not, and the occupied cells
\* and the populated set grow by one per tile placed.
AddTileOnlyOnEmpty ==
    [][call'.op = "add_tile" =>
        /\ \A c \in DOMAIN tiles :
             tiles'[c] # tiles[c] => (c \notin populated /\ c \notin OccupiedCells)
        /\ populated # DOMAIN tiles => FirstPicks = DOMAIN tiles \ populated
        /\ \A c \in OccupiedCells :
             tiles'[c] = tiles[c] /\ obj'[tiles[c]] = obj[tiles[c]]
        /\ Cardinality(OccupiedCells') = Cardinality(OccupiedCells) + call'.placed
        /\ Cardinality(populated') = Cardinality(populated) + call'.placed]_vars

\* C20, its case: add_tile has placed two tiles on a floor that held a fixed
\* tile and a tile not fixed yet.
AddTileOnlyOnEmptyCase ==
    /\ call.op = "add_tile"
    /\ call.placed = 2
    /\ Cardinality(Occupied) = 4
    /\ \E t, u \in Occupied : obj[t].fixed /\ ~obj[u].fixed /\ obj[u].id # call.cls

\* C21: a post_process_layer call returns after exactly 4 passes whatever
\* swaps it accepts: the passes it logs are 1 to 4 in that order, each tile
\* of the layer is anchor once and no tile twice in a pass, and at return
\* every tile of the floor is fixed.
FourPassesThenFixed ==
    call.op = "post_process_layer" =>
        /\ \A i \in DOMAIN call.log : call.log[i].pass \in 1 .. Passes
        /\ \A i, j \in DOMAIN call.log :
             i < j => /\ call.log[i].pass <= call.log[j].pass
                      /\ call.log[i].pass = call.log[j].pass
                            => call.log[i].anchor # call.log[j].anchor
        /\ call.log # <<>> =>
             \A p, q \in 1 .. Passes :
                 /\ AnchorsOfPass(p) # <<>>
                 /\ Len(AnchorsOfPass(p)) = Len(AnchorsOfPass(q))
        /\ \A t \in Occupied : obj[t].fixed

\* C21, its case: a call on a layer of three tiles accepted a swap whose
\* score equalled the running score, and a swap on its last pass.
FourPassesThenFixedCase ==
    /\ call.op = "post_process_layer"
    /\ Len(AnchorsOfPass(1)) = 3
    /\ \E i \in DOMAIN call.log :
         /\ call.log[i].replacement # None
         /\ \E k \in DOMAIN call.log[i].trials :
              /\ call.log[i].trials[k][1] = call.log[i].replacement
              /\ call.log[i].trials[k][2] = call.log[i].baseline
    /\ \E i \in DOMAIN call.log :
         call.log[i].pass = Passes /\ call.log[i].replacement # None

\* The cells that hold a tile of the given id.
CellsWith(id) == {c \in DOMAIN tiles : obj[tiles[c]].id = id}

\* C22: finalize_floor places nothing: no tile's tx, ty, id, fixed flag or
\* grid slot changes and the populated set stays; chest_locations and
\* wall_locations come to list the coordinate of each chest and of each wall
\* once, and the fields written on tiles are frames, wall HP and
\* minotaurChestLocation.
FinalizePlacesNothing ==
    [][call'.op = "finalize_floor" =>
        /\ tiles' = tiles /\ obj' = obj /\ populated' = populated
        /\ width' = width /\ height' = height /\ satisfaction' = satisfaction
        /\ {chest_locations'[i] : i \in DOMAIN chest_locations'} = CellsWith(TileID.Chest)
        /\ Len(chest_locations') = Cardinality(CellsWith(TileID.Chest))
        /\ {wall_locations'[i] : i \in DOMAIN wall_locations'} = CellsWith(TileID.Wall)
        /\ Len(wall_locations') = Cardinality(CellsWith(TileID.Wall))
        /\ \A c \in CellsWith(TileID.Wall) :
             display'[tiles[c]].wallHP = 3 /\ display'[tiles[c]].wallMaxHP = 3
        /\ \A r \in DOMAIN display' :
             display'[r].minotaurChestLocation # <<>> =>
                 /\ obj[r].id = TileID.Minotaur
                 /\ display'[r].minotaurChestLocation \in CellsWith(TileID.Chest)]_vars

\* C22, its case: finalize_floor has run on a floor with a wall, a guard and
\* a minotaur next to a chest, and has written on each of them.
FinalizePlacesNothingCase ==
    /\ call.op = "finalize_floor"
    /\ wall_locations # <<>>
    /\ \E r \in DOMAIN display : display[r].minotaurChestLocation # <<>>
    /\ \E r \in DOMAIN display : display[r].strip_frame = res_to_frame(200, 200)

\* The sum of the tiles' own satisfaction() over the populated cells.
PositionalTotal ==
    LET InSet(c) == c \in populated
        listed == SelectSeq(RowMajor(Floor), InSet)
    IN  Sum([i \in 1 .. Len(listed) |-> tile_satisfaction(obj[tiles[listed[i]]])], 1)

\* C23: on a floor without Wizard, Dragon, Medikit and Chest and with at
\* most one Giant, happiness raises no error and returns the sum of the
\* tiles' positional scores: the BigSlimes, DragonEggs, Gnomes, Minotaurs
\* and the Giant add no bonus.
PartialLayersTolerated ==
    (call.op = "happiness" /\ Cardinality(Giants) <= 1) =>
        (~call.raised /\ call.ret = PositionalTotal)

\* C23, for the floors without BigSlime and DragonEgg: there happiness does
\* return the sum of the positional scores.
PartialLayersWithoutGetTile ==
    (/\ call.op = "happiness"
     /\ Cardinality(Giants) <= 1
     /\ \A t \in Occupied : obj[t].id \notin {TileID.BigSlime, TileID.DragonEgg}) =>
        (~call.raised /\ call.ret = PositionalTotal)

\* The cells of the grid other than tile t's own, at most `radius` columns
\* and `radius` rows away from it, whose tile has t's id.
BoxNeighbors(t, radius) ==
    {c \in DOMAIN tiles :
        /\ c # <<obj[t].tx, obj[t].ty>>
        /\ c[1] - obj[t].tx \in (0 - radius) .. radius
        /\ c[2] - obj[t].ty \in (0 - radius) .. radius
        /\ obj[tiles[c]].id = obj[t].id}

\* C24: count_identical_neighbors(tile, radius) is the number of cells of
\* the grid, other than the tile's own, within `radius` columns and rows of
\* it whose tile has the tile's id; each Chest adds -1000 times that number
\* for radius 3 to the score, so that on a floor of chests happiness returns
\* the sum of these.
NeighborsInBox ==
    /\ call.op = "count_identical_neighbors" =>
         call.ret = Cardinality(BoxNeighbors(call.args[1], call.args[2]))
    /\ \A t \in Occupied :
         obj[t].id = TileID.Chest =>
             relational_happiness(Floor, t) = 0 - 1000 * Cardinality(BoxNeighbors(t, 3))
    /\ (call.op = "happiness" /\ \A t \in Occupied : obj[t].id = TileID.Chest) =>
         call.ret = 0 - 1000 * Cardinality({p \in Occupied \X Occupied :
                        <<obj[p[2]].tx, obj[p[2]].ty>> \in BoxNeighbors(p[1], 3)})

\* C24, its case: a tile was counted with radius 1 on a 2 x 2 floor and the
\* tile of its id diagonally across was counted.
NeighborsInBoxCase ==
    /\ call.op = "count_identical_neighbors"
    /\ call.args[2] = 1
    /\ call.ret = 1
    /\ width = 2 /\ height = 2
    /\ \E c \in BoxNeighbors(call.args[1], 1) :
         c[1] # obj[call.args[1]].tx /\ c[2] # obj[call.args[1]].ty

\* C25: whenever a post_process_layer call starts on an anchor, the
\* Floor.satisfaction it takes as baseline is the happiness of the grid as it
\* is then; and when the call returns, Floor.satisfaction is the happiness of
\* the grid it leaves.
BaselineIsTrueScore ==
    call.op = "post_process_layer" =>
        /\ \A i \in DOMAIN call.log : call.log[i].baseline = call.log[i].before
        /\ satisfaction = call.exit

\* How many cells of the grid g store the tile object r.
Slots(g, r) == Cardinality({c \in DOMAIN g : g[c] = r})

\* C26: a post_process_layer call only permutes the tiles of the occupied
\* cells that are not fixed: the populated set is the same before and after,
\* every empty cell keeps its empty tile, a cell whose content changes was
\* populated with a tile not fixed, and every tile object is stored as often
\* as before, with the id and name it had.
OnlyPermutesLayer ==
    [][call'.op = "post_process_layer" =>
          /\ populated' = populated
          /\ \A c \in DOMAIN tiles :
                /\ obj[tiles[c]].id = TileID.Empty => tiles'[c] = tiles[c]
                /\ tiles'[c] # tiles[c] =>
                      /\ c \in populated
                      /\ ~obj[tiles[c]].fixed
                      /\ ~obj[tiles'[c]].fixed
          /\ DOMAIN obj' = DOMAIN obj
          /\ \A r \in DOMAIN obj :
                /\ Slots(tiles', r) = Slots(tiles, r)
                /\ obj'[r].id = obj[r].id
                /\ obj'[r].name = obj[r].name]_vars

\* C26, its case: a post_process_layer call has swapped tiles on a floor
\* that has an empty cell and a tile fixed by an earlier layer.
OnlyPermutesLayerCase ==
    /\ call.op = "post_process_layer"
    /\ \E i \in DOMAIN call.log : call.log[i].replacement # None
    /\ \E c \in DOMAIN tiles : obj[tiles[c]].id = TileID.Empty
    /\ \E r \in Occupied : r \notin Anchors

\* On the floor F every occupied tile stored at tiles[y][x] has tx = x and
\* ty = y, and is stored in no other grid slot.
Coherent(F) ==
    \A c \in DOMAIN F.tiles :
        F.obj[F.tiles[c]].id # TileID.Empty =>
            /\ <<F.obj[F.tiles[c]].tx, F.obj[F.tiles[c]].ty>> = c
            /\ \A d \in DOMAIN F.tiles : F.tiles[d] = F.tiles[c] => d = c

\* C27: after any sequence of add_tile and post_process_layer calls every
\* occupied tile is stored at its own (tx, ty) and in one grid slot only; and
\* so it is after the trial swap post_process_layer makes of any two tiles of
\* the layer, and after the swap back.
TilesKnowTheirCell ==
    /\ Coherent(Floor)
    /\ \A c, d \in Unfixed(Floor) :
          c # d =>
            /\ Coherent(swap_tiles(Floor, tiles[c], tiles[d]))
            /\ Coherent(swap_tiles(swap_tiles(Floor, tiles[c], tiles[d]),
                                   tiles[c], tiles[d]))

\* C27, its case: a post_process_layer call on a second layer has tried
\* several candidates for one anchor and swapped one in.
TilesKnowTheirCellCase ==
    /\ call.op = "post_process_layer"
    /\ \E r \in Occupied : r \notin Anchors
    /\ \E i \in DOMAIN call.log :
          /\ Len(call.log[i].trials) >= 2
          /\ call.log[i].replacement # None
          /\ call.log[i].after # call.log[i].before

\* C28: when generate_dungeon raises in the thread Game.run has started, the
\* loading loop comes to its end and the stored exception is raised to the
\* caller of run.
ErrorIsReraised ==
    (run.generation_error # None) ~>
        (run.main = "raised" /\ run.raised = run.generation_error)

\* C28, what the code does instead: in no state has run raised a stored
\* exception, and once one is stored the caller stays in the loading loop.
ErrorNeverReraised ==
    /\ run.main # "raised"
    /\ run.generation_error # None => run.main = "loading" /\ ~run.dungeon_ready

\* C28, the other outcome: when generate_dungeon returns, the loading loop
\* ends and the game loop is entered.
ReadyEndsLoading == run.dungeon_ready ~> (run.main \in {"game_loop", "returned"})

\* C29: on the 13 x 10 grid generate_dungeon never runs out of empty cells:
\* it ends by returning, its six layers have requested 103 tiles and placed
\* them all, 103 cells are occupied, 27 are empty and every occupied tile is
\* fixed.
GenerationPlacesAll ==
    (width = config.grid_columns /\ height = config.grid_rows /\ gen.status # "running") =>
        /\ gen.status = "returned"
        /\ gen.requested = 103
        /\ gen.placed = 103
        /\ gen.occupied = 103
        /\ width * height - gen.occupied = 27
        /\ gen.unfixed = 0

\* C29, the part on capacity: on the 13 x 10 grid every add_tile call made
\* has placed all it was asked for, and the calls of the six layers ask for
\* 2 + 5 + 1 + 2 + 47 + 46 = 103 tiles, fewer than the grid has cells.
CapacityNotExhausted ==
    LET RECURSIVE sum(_, _)
        sum(i, to) == IF i > to THEN 0
                      ELSE generate_dungeon_calls[i].count + sum(i + 1, to)
    IN  /\ (width = config.grid_columns /\ height = config.grid_rows) => gen.placed = gen.requested
        /\ <<sum(1, 3), sum(4, 5), sum(6, 7), sum(8, 10), sum(11, 29), sum(30, 37)>>
              = <<2, 5, 1, 2, 47, 46>>
        /\ sum(1, Len(generate_dungeon_calls)) = 103
        /\ Len(generate_dungeon_calls) = 37

\* C29, what the code does on the 13 x 10 grid: it ends in the second
\* layer's post_process_layer, by raising, with 7 tiles placed.
GenerationRaisesInLayerTwo ==
    (width = config.grid_columns /\ height = config.grid_rows /\ gen.status # "running") =>
        /\ gen.status = "raised"
        /\ gen.step = 5
        /\ gen.placed = 7

====
